---------------------------- MODULE Spec2Model ----------------------------
(***************************************************************************)
(* A model of backend/analyzer.py: the ASTAnalyzer visitor (classes,       *)
(* functions, methods, per-callable details and docstring counters), the   *)
(* comment counter count_all_comments, and the report assembled by         *)
(* analyze_python_code; and of the handler of POST /analyze in             *)
(* backend/main.py, which passes an upload to analyze_python_code.         *)
(*                                                                         *)
(* A source text is modelled by the two views the code takes of it:        *)
(*   - tree:  the syntax tree ast.parse returns, as the sequence of its    *)
(*            compound statements in source (pre-)order; node 0 is the     *)
(*            Module, tree[i].parent is the node whose body holds node i.  *)
(*   - lines: the physical lines as tokenize / str.splitlines see them,    *)
(*            each one of a few line shapes (LineText gives the text).     *)
(* Every definition of a tree has its own name, so that a name in the      *)
(* report identifies the definition it came from.                          *)
(***************************************************************************)
EXTENDS Integers, Sequences, FiniteSets, TLC

(* ------------------------------ bounds -------------------------------- *)
MaxNodes == 4
MaxPosOnly == 1
MaxArgs == 2
MaxKwOnly == 1
MaxLines == 3

(* --------------------------- Python values ---------------------------- *)
\* None where the other values are strings; Absent where they are nodes.
None == "<None>"
Absent == [t |-> "None"]

Get(d, key, dflt) == IF key \in DOMAIN d THEN d[key] ELSE dflt

RECURSIVE Join(_, _)
Join(sep, ls) ==
    IF ls = <<>> THEN ""
    ELSE IF Len(ls) = 1 THEN ls[1]
    ELSE ls[1] \o sep \o Join(sep, Tail(ls))

(* ------------------------- annotations (ast) -------------------------- *)
Name(id) == [t |-> "Name", id |-> id]
Subscript(v, s) == [t |-> "Subscript", value |-> v, slice |-> s]
Constant(v) == [t |-> "Constant", value |-> v]
BinOp(l, r) == [t |-> "BinOp", left |-> l, right |-> r]

\* ast.unparse of an annotation expression: a string constant is rendered
\* with its quotes (repr), a union with " | ".
RECURSIVE unparse(_)
unparse(a) ==
    CASE a.t = "Name" -> a.id
      [] a.t = "Subscript" -> unparse(a.value) \o "[" \o unparse(a.slice) \o "]"
      [] a.t = "Constant" -> "'" \o a.value \o "'"
      [] a.t = "BinOp" -> unparse(a.left) \o " | " \o unparse(a.right)

RECURSIVE AnnotationToString(_)
AnnotationToString(a) ==
    CASE a.t = "Name" -> a.id
      [] a.t = "Subscript" ->
            AnnotationToString(a.value) \o "[" \o AnnotationToString(a.slice) \o "]"
      [] a.t = "Constant" -> a.value
      [] OTHER -> "Any"

\* lines 42-50 and 57-65: arg_type of one positional or keyword-only arg.
\* ast.unparse does not raise on a tree ast.parse built, so the except
\* branch is not taken.
ArgType(arg, hasUnparse) ==
    LET arg_type == IF arg.annotation # Absent
                    THEN IF hasUnparse THEN unparse(arg.annotation)
                         ELSE AnnotationToString(arg.annotation)
                    ELSE None
    IN IF arg_type = None \/ arg_type = "" THEN "Any" ELSE arg_type

(* ----------------------- _extract_function_info ----------------------- *)
\* ast.get_docstring(node): None unless the first statement is a string
\* literal; otherwise the literal cleaned by inspect.cleandoc, which strips
\* the first line's leading blanks and drops blank first and last lines.
CleanDoc(raw) ==
    CASE raw = "   " -> ""
      [] raw = "  desc" -> "desc"
      [] OTHER -> raw

GetDocstring(node) == IF node.doc = None THEN None ELSE CleanDoc(node.doc)

\* "if docstring:" -- None and the empty string are falsy.
HasDocstring(node) ==
    LET docstring == GetDocstring(node)
    IN docstring # None /\ docstring # ""

PositionalInfo(a, hasUnparse) ==
    [i \in 1..Len(a.args) |->
        [name |-> a.args[i].arg, type |-> ArgType(a.args[i], hasUnparse),
         default |-> FALSE]]

KwOnlyInfo(a, hasUnparse) ==
    [i \in 1..Len(a.kwonlyargs) |->
        [name |-> a.kwonlyargs[i].arg,
         type |-> ArgType(a.kwonlyargs[i], hasUnparse), default |-> TRUE]]

VarargInfo(a) ==
    IF a.vararg # Absent
    THEN <<[name |-> a.vararg.arg, type |-> "Any", default |-> FALSE,
            vararg |-> TRUE]>>
    ELSE <<>>

KwargInfo(a) ==
    IF a.kwarg # Absent
    THEN <<[name |-> a.kwarg.arg, type |-> "Any", default |-> FALSE,
            kwargs |-> TRUE]>>
    ELSE <<>>

\* The list before the defaults sweep (lines 37-85).
ArgsBeforeDefaults(a, hasUnparse) ==
    PositionalInfo(a, hasUnparse) \o KwOnlyInfo(a, hasUnparse)
        \o VarargInfo(a) \o KwargInfo(a)

\* Lines 88-91. i runs over start .. start+K-1 with start = len(args) - K;
\* args_info[i] is a Python subscript: a negative i counts from the end of
\* the list, and one below -len(args_info) raises IndexError.  The first i
\* is the smallest, so the sweep raises iff start < -len(args_info).
DefaultIndices(a, n) ==
    LET start == Len(a.args) - Len(a.defaults)
    IN {i \in start..(start + Len(a.defaults) - 1) : i < n}

ApplyDefaults(info, a) ==
    LET n == Len(info)
        idx == DefaultIndices(a, n)
        at(i) == IF i >= 0 THEN i + 1 ELSE n + i + 1
    IN IF \E i \in idx : i < -n
       THEN [raised |-> TRUE]
       ELSE [raised |-> FALSE,
             args |-> [j \in 1..n |->
                         IF \E i \in idx : at(i) = j
                         THEN [info[j] EXCEPT !.default = TRUE]
                         ELSE info[j]]]

(* -------------------- _generate_baseline_docstring -------------------- *)
BaselineArgLine(arg) ==
    LET arg_type == Get(arg, "type", "Any")
    IN IF Get(arg, "vararg", FALSE)
       THEN "    *" \o arg.name \o " (" \o arg_type \o "): Variable positional arguments"
       ELSE IF Get(arg, "kwargs", FALSE)
       THEN "    **" \o arg.name \o " (" \o arg_type \o "): Variable keyword arguments"
       ELSE "    " \o arg.name \o " (" \o arg_type \o "): Description of " \o arg.name

\* The lines with the "Args:" section emitted for every descriptor list.
BaselineLinesArgsAlways(func_name, args) ==
    <<func_name>>
    \o <<"", "Args:">> \o [i \in 1..Len(args) |-> BaselineArgLine(args[i])]
    \o <<"", "Returns:", "    Any: Description of return value">>

BaselineLines(func_name, args) ==
    <<func_name>>
    \o (IF args # <<>>
        THEN <<"", "Args:">> \o [i \in 1..Len(args) |-> BaselineArgLine(args[i])]
        ELSE <<>>)
    \o <<"", "Returns:", "    Any: Description of return value">>

GenerateBaselineDocstring(func_name, args, class_name) ==
    Join("\n", BaselineLines(func_name, args))

ReturnType(node, hasUnparse) ==
    IF node.returns # Absent /\ hasUnparse THEN unparse(node.returns) ELSE None

\* The whole of _extract_function_info: [raised |-> TRUE] when the defaults
\* sweep raises IndexError, else the dict it returns.
ExtractFunctionInfo(node, class_name, hasUnparse) ==
    LET swept == ApplyDefaults(ArgsBeforeDefaults(node.args, hasUnparse), node.args)
    IN IF swept.raised
       THEN [raised |-> TRUE]
       ELSE [raised |-> FALSE,
             info |-> [name |-> node.name,
                       class_name |-> class_name,
                       has_docstring |-> HasDocstring(node),
                       docstring |-> GetDocstring(node),
                       args |-> swept.args,
                       return_type |-> ReturnType(node, hasUnparse),
                       baseline_docstring |->
                           GenerateBaselineDocstring(node.name, swept.args, class_name)]]


(* --------------------------- the syntax tree -------------------------- *)
Module == [kind |-> "Module", name |-> None]

NodeAt(tree, n) == IF n = 0 THEN Module ELSE tree[n]

\* node.body (for an If also its orelse): the statements directly inside n.
Children(tree, n) ==
    SelectSeq([i \in 1..Len(tree) |-> i], LAMBDA i : tree[i].parent = n)

RECURSIVE IsInside(_, _, _)
IsInside(tree, i, n) ==
    IF i = 0 THEN FALSE
    ELSE tree[i].parent = n \/ IsInside(tree, tree[i].parent, n)

\* ast.walk(node): the node itself and everything below it.
Walk(tree, n) == {n} \cup {i \in 1..Len(tree) : IsInside(tree, i, n)}

(* ----------------------------- ASTAnalyzer ---------------------------- *)
NewAnalyzer ==
    [classes |-> <<>>, functions |-> <<>>, methods |-> <<>>,
     function_details |-> <<>>, method_details |-> <<>>,
     functions_with_docstrings |-> 0, functions_without_docstrings |-> 0,
     methods_with_docstrings |-> 0, methods_without_docstrings |-> 0]

\* Lines 161-164.
CountMethod(an, method_info) ==
    IF method_info.has_docstring
    THEN [an EXCEPT !.methods_with_docstrings = @ + 1]
    ELSE [an EXCEPT !.methods_without_docstrings = @ + 1]

\* Lines 178-181 with the functions without a docstring left uncounted.
CountFunctionDocumentedOnly(an, func_info) ==
    IF func_info.has_docstring
    THEN [an EXCEPT !.functions_with_docstrings = @ + 1]
    ELSE an

\* Lines 178-181.
CountFunction(an, func_info) ==
    IF func_info.has_docstring
    THEN [an EXCEPT !.functions_with_docstrings = @ + 1]
    ELSE [an EXCEPT !.functions_without_docstrings = @ + 1]

\* The loop of visit_ClassDef over node.body (lines 153-164); it stops where
\* _extract_function_info raises, the name already appended to methods.
RECURSIVE CollectMethods(_, _, _, _, _)
CollectMethods(an, tree, class_name, items, hasUnparse) ==
    IF items = <<>> THEN [raised |-> FALSE, an |-> an]
    ELSE LET item == tree[Head(items)]
         IN IF item.kind # "FunctionDef"
            THEN CollectMethods(an, tree, class_name, Tail(items), hasUnparse)
            ELSE LET named == [an EXCEPT !.methods =
                                  Append(@, class_name \o "." \o item.name)]
                     r == ExtractFunctionInfo(item, class_name, hasUnparse)
                 IN IF r.raised
                    THEN [raised |-> TRUE, an |-> named]
                    ELSE CollectMethods(
                            CountMethod([named EXCEPT !.method_details =
                                            Append(@, r.info)], r.info),
                            tree, class_name, Tail(items), hasUnparse)

\* Line 170: true when no node of ast.walk(node) is a ClassDef.
IsCountedTopLevel(tree, n) ==
    ~ \E i \in Walk(tree, n) : NodeAt(tree, i).kind = "ClassDef"

\* Lines 170-181 of visit_FunctionDef.
RecordFunction(an, tree, n, hasUnparse) ==
    IF ~ IsCountedTopLevel(tree, n) THEN [raised |-> FALSE, an |-> an]
    ELSE LET named == [an EXCEPT !.functions = Append(@, tree[n].name)]
             r == ExtractFunctionInfo(tree[n], None, hasUnparse)
         IN IF r.raised
            THEN [raised |-> TRUE, an |-> named]
            ELSE [raised |-> FALSE,
                  an |-> CountFunction([named EXCEPT !.function_details =
                                            Append(@, r.info)], r.info)]

(* -------------------------- count_all_comments ------------------------ *)
\* The physical lines the model draws a source text from.
LineKinds ==
    {"code", "comment", "code_comment", "triple", "triple_num", "quote3",
     "open_paren", "indented", "dedent_bad"}

LineText(k) ==
    CASE k = "code" -> "x = 1"
      [] k = "comment" -> "# c"
      [] k = "code_comment" -> "x = 1  # c"
      [] k = "triple" -> "\"\"\"doc\"\"\""
      [] k = "triple_num" -> "\"\"\"123\"\"\""
      [] k = "quote3" -> "\"\"\""
      [] k = "open_paren" -> "x = ("
      [] k = "indented" -> "        a"
      [] k = "dedent_bad" -> "    b  # c"

\* Column of the first non-blank character.
LineIndent(k) ==
    CASE k = "indented" -> 8
      [] k = "dedent_bad" -> 4
      [] OTHER -> 0

\* The line holds a COMMENT token when tokenized as code.
HasCommentToken(k) == k \in {"comment", "code_comment", "dedent_bad"}

\* The counters of lines 191-193 with the state of the tokenizer: instr when
\* inside a triple-quoted literal that began cur lines ago (text: it has
\* content that is neither blank nor numeric), the bracket depth and the
\* indentation stack; failed with the exception tokenize raised.
TokInit ==
    [single |-> 0, multi |-> 0, doc |-> 0, instr |-> FALSE, cur |-> 0,
     text |-> FALSE, parenlev |-> 0, indents |-> <<0>>, failed |-> FALSE,
     exc |-> None]

\* Lines 202-216 for a triple-quoted STRING token of nlines lines.
CountString(s, nlines, hasText) ==
    [s EXCEPT !.multi = @ + nlines,
              !.doc = IF hasText THEN @ + nlines ELSE @]

RECURSIVE Dedent(_, _)
Dedent(indents, col) ==
    IF col >= indents[Len(indents)] THEN [failed |-> FALSE, indents |-> indents]
    ELSE IF ~ \E j \in 1..Len(indents) : indents[j] = col
         THEN [failed |-> TRUE, indents |-> indents]
         ELSE Dedent(SubSeq(indents, 1, Len(indents) - 1), col)

\* The tokens of one line outside a literal, each passed to lines 200-216.
LineTokens(s, k) ==
    LET c == IF HasCommentToken(k) THEN [s EXCEPT !.single = @ + 1] ELSE s
    IN CASE k = "triple" -> CountString(c, 1, TRUE)
         [] k = "triple_num" -> CountString(c, 1, FALSE)
         [] k = "quote3" -> [c EXCEPT !.instr = TRUE, !.cur = 1, !.text = FALSE]
         [] k = "open_paren" -> [c EXCEPT !.parenlev = @ + 1]
         [] OTHER -> c

\* tokenize on one more line.  Inside a literal a line without quotes is
\* content; one with quotes ends the literal there, and "triple" lines open
\* the next literal with their second quotes.  Outside, a line that is not
\* a comment alone and not inside brackets is first matched against the
\* indentation stack, and a dedent to no enclosing level raises.
TokLine(s, k) ==
    IF s.instr
    THEN IF k \in {"triple", "triple_num"}
         THEN [CountString(s, s.cur + 1, s.text) EXCEPT !.cur = 1, !.text = FALSE]
         ELSE IF k = "quote3"
         THEN [CountString(s, s.cur + 1, s.text) EXCEPT !.instr = FALSE]
         ELSE [s EXCEPT !.cur = @ + 1, !.text = TRUE]
    ELSE IF s.parenlev = 0 /\ k # "comment"
         THEN LET col == LineIndent(k)
                  pushed == IF col > s.indents[Len(s.indents)]
                            THEN Append(s.indents, col) ELSE s.indents
                  d == Dedent(pushed, col)
              IN IF d.failed
                 THEN [s EXCEPT !.failed = TRUE, !.exc = "IndentationError"]
                 ELSE LineTokens([s EXCEPT !.indents = d.indents], k)
         ELSE LineTokens(s, k)

\* The try block (lines 195-216): the loop over the tokens, which stops at the
\* line where tokenize raises; at the end of the text an open literal or an
\* open bracket raises (EOF in multi-line string / statement).
RECURSIVE TokenPass(_, _)
TokenPass(s, lines) ==
    IF s.failed THEN s
    ELSE IF lines = <<>>
         THEN IF s.instr \/ s.parenlev > 0
              THEN [s EXCEPT !.failed = TRUE, !.exc = "TokenError"]
              ELSE s
         ELSE TokenPass(TokLine(s, Head(lines)), Tail(lines))

TokenizeFails(lines) == TokenPass(TokInit, lines).failed

\* The except block (lines 218-224) from the counters c as the try block left
\* them.
RECURSIVE LineScan(_, _)
LineScan(c, lines) ==
    IF lines = <<>> THEN c
    ELSE LET k == Head(lines)
             c1 == IF k = "comment" THEN [c EXCEPT !.single = @ + 1]
                   ELSE IF k \in {"triple", "triple_num", "quote3"}
                        THEN [c EXCEPT !.multi = @ + 1]
                        ELSE c
         IN LineScan(c1, Tail(lines))

\* "except tokenize.TokenError:" in the place of the bare "except:".
CaughtTokenErrorOnly(exc) == exc = "TokenError"

\* Line 217: the bare "except:" catches whatever the try block raised.
Caught(exc) == TRUE

\* Lines 226-231.
CommentCounts(c) ==
    [single_line_comments |-> c.single,
     multi_line_comments |-> c.multi,
     docstring_lines |-> c.doc,
     total_comments |-> c.single + c.multi]

\* count_all_comments with the total taken at the end of the try block.
CountAllCommentsTotalInTry(lines) ==
    LET t == TokenPass(TokInit, lines)
        c == IF t.failed THEN LineScan(t, lines) ELSE t
    IN [raised |-> FALSE,
        counts |-> [CommentCounts(c) EXCEPT !.total_comments = t.single + t.multi]]

\* The whole of count_all_comments: the dict it returns, or the exception
\* the except clause let through.
CountAllComments(lines) ==
    LET t == TokenPass(TokInit, lines)
    IN IF ~ t.failed THEN [raised |-> FALSE, counts |-> CommentCounts(t)]
       ELSE IF Caught(t.exc)
            THEN [raised |-> FALSE, counts |-> CommentCounts(LineScan(t, lines))]
            ELSE [raised |-> TRUE, exc |-> t.exc]

(* ------------------------- analyze_python_code ------------------------ *)
\* Coverage with the share of the callables without a docstring.
CoverageOfUndocumented(with, total) ==
    IF total > 0 THEN [num |-> (total - with) * 100, den |-> total]
    ELSE [num |-> 0, den |-> 1]

\* with / total * 100 as an exact fraction; the int 0 without callables.
Coverage(with, total) ==
    IF total > 0 THEN [num |-> with * 100, den |-> total]
    ELSE [num |-> 0, den |-> 1]

BuildCounts(an, cc) ==
    LET total_functions_and_methods ==
            Len(an.function_details) + Len(an.method_details)
        total_with_docstrings ==
            an.functions_with_docstrings + an.methods_with_docstrings
        total_without_docstrings ==
            an.functions_without_docstrings + an.methods_without_docstrings
    IN [total_modules |-> 1,
        total_classes |-> Len(an.classes),
        total_functions |-> Len(an.functions),
        total_methods |-> Len(an.methods),
        total_comments |-> cc.total_comments,
        single_line_comments |-> cc.single_line_comments,
        multi_line_comments |-> cc.multi_line_comments,
        docstring_lines |-> cc.docstring_lines,
        functions_with_docstrings |-> an.functions_with_docstrings,
        functions_without_docstrings |-> an.functions_without_docstrings,
        methods_with_docstrings |-> an.methods_with_docstrings,
        methods_without_docstrings |-> an.methods_without_docstrings,
        total_with_docstrings |-> total_with_docstrings,
        total_without_docstrings |-> total_without_docstrings,
        docstring_coverage |->
            Coverage(total_with_docstrings, total_functions_and_methods)]

BuildReport(an, cc) ==
    [modules |-> 1,
     classes |-> an.classes,
     functions |-> an.functions,
     methods |-> an.methods,
     function_details |-> an.function_details,
     method_details |-> an.method_details,
     counts |-> BuildCounts(an, cc)]

(* ------------------------------- inputs ------------------------------- *)
RECURSIVE AncestorsOrSelf(_, _)
AncestorsOrSelf(parents, i) ==
    IF i = 0 THEN {0} ELSE {i} \cup AncestorsOrSelf(parents, parents[i])

\* The parent vectors of the trees with n nodes numbered in source order: a
\* statement follows the previous one inside it, beside it, or beside one of
\* its enclosing statements.
RECURSIVE ParentVecs(_)
ParentVecs(n) ==
    IF n = 0 THEN {<<>>}
    ELSE UNION {{Append(p, q) : q \in AncestorsOrSelf(p, n - 1)} :
                    p \in ParentVecs(n - 1)}

Arg(nm, ann) == [arg |-> nm, annotation |-> ann]

NoArguments ==
    [posonlyargs |-> <<>>, args |-> <<>>, vararg |-> Absent,
     kwonlyargs |-> <<>>, kwarg |-> Absent, defaults |-> <<>>]

\* def f(a, b=1, *args, **kw)
PlainArguments ==
    [posonlyargs |-> <<>>, args |-> <<Arg("a", Absent), Arg("b", Absent)>>,
     vararg |-> Arg("args", Absent), kwonlyargs |-> <<>>,
     kwarg |-> Arg("kw", Absent), defaults |-> <<1>>]

\* The first statement of a function body: None when it is no string
\* literal, else the literal's value.
RawDocs == {None, "desc", "", "   ", "  desc"}

\* A function, with a docstring or without one.
FunctionShapes == {[kind |-> "FunctionDef", doc |-> d] : d \in {None, "desc"}}

NodeShapes ==
    {[kind |-> "ClassDef", doc |-> None], [kind |-> "Other", doc |-> None]}
    \cup FunctionShapes

NodeName(kind, i) ==
    (CASE kind = "ClassDef" -> "C" [] kind = "FunctionDef" -> "f" [] OTHER -> "s")
        \o ToString(i)

MkTree(parents, shapes, arguments, returns) ==
    [i \in 1..Len(parents) |->
        [kind |-> shapes[i].kind, parent |-> parents[i],
         name |-> NodeName(shapes[i].kind, i), doc |-> shapes[i].doc,
         args |-> IF shapes[i].kind = "FunctionDef" THEN arguments ELSE NoArguments,
         returns |-> IF shapes[i].kind = "FunctionDef" THEN returns ELSE Absent]]

Trees(n) ==
    {MkTree(p, s, PlainArguments, Absent) : p \in ParentVecs(n), s \in [1..n -> NodeShapes]}

\* The annotation a parameter carries when it is annotated, by its place.
AnnotationForms ==
    <<Name("int"), Subscript(Name("List"), Name("int")), Constant("Foo"),
      BinOp(Name("int"), Name("None"))>>

AnnotationAt(k) == AnnotationForms[(k % Len(AnnotationForms)) + 1]

\* The parameter lists of one section: up to max parameters, each annotated
\* or not.
ArgLists(prefix, shift, max) ==
    UNION {{[i \in 1..n |-> Arg(prefix \o ToString(i),
                                IF ann[i] THEN AnnotationAt(i + shift) ELSE Absent)] :
                ann \in [1..n -> BOOLEAN]} : n \in 0..max}

OptionalArg(nm, ann) == {Absent, Arg(nm, Absent), Arg(nm, ann)}

\* Every parameter list of the grammar within the bounds: the defaults are
\* those of the last parameters of posonlyargs + args.
Signatures ==
    {a \in [posonlyargs : ArgLists("p", 3, MaxPosOnly),
            args : ArgLists("a", 0, MaxArgs),
            vararg : OptionalArg("args", Name("int")),
            kwonlyargs : ArgLists("k", 1, MaxKwOnly),
            kwarg : OptionalArg("kw", Name("str")),
            defaults : {[i \in 1..k |-> i] : k \in 0..(MaxPosOnly + MaxArgs)}] :
        Len(a.defaults) <= Len(a.posonlyargs) + Len(a.args)}

\* class C1: def f2(<signature>) [-> int]: """desc"""
SignatureTree(arguments, returns) ==
    MkTree(<<0, 1>>,
           <<[kind |-> "ClassDef", doc |-> None], [kind |-> "FunctionDef", doc |-> "  desc"]>>,
           arguments, returns)

\* class C1: def f2(): <d1>
\* def f3(): <d2>
DocstringTree(d1, d2) ==
    MkTree(<<0, 1, 0>>,
           <<[kind |-> "ClassDef", doc |-> None], [kind |-> "FunctionDef", doc |-> d1],
             [kind |-> "FunctionDef", doc |-> d2]>>,
           NoArguments, Absent)

\* def f1(): pass
SmallTree ==
    MkTree(<<0>>, <<[kind |-> "FunctionDef", doc |-> None]>>, NoArguments, Absent)

RECURSIVE SeqsUpTo(_, _)
SeqsUpTo(S, n) ==
    IF n = 0 THEN {<<>>}
    ELSE LET shorter == SeqsUpTo(S, n - 1)
         IN shorter \cup {Append(q, x) : q \in {r \in shorter : Len(r) = n - 1}, x \in S}

Sources == SeqsUpTo(LineKinds, MaxLines)

(* ---------------------------- state machine --------------------------- *)
VARIABLES
    request,         \* the upload POST /analyze was sent, Absent without one
    response,        \* what the handler of /analyze answered
    call,            \* the function of the module that is called
    source_code,     \* its argument: [parses, tree, lines]
    has_unparse,     \* hasattr(ast, 'unparse'): the interpreter is 3.9 or later
    pc,              \* "request", "start", "visit", "counted", "done", "raised"
                     \* or "responded"
    todo,            \* the nodes NodeVisitor.visit is still to be called on
    analyzer,        \* the ASTAnalyzer
    comment_counts,  \* what count_all_comments returned
    report,          \* what analyze_python_code returned
    error            \* the exception that left the call

vars == <<request, response, call, source_code, has_unparse, pc, todo, analyzer, comment_counts,
          report, error>>

Start ==
    /\ request = Absent
    /\ response = Absent
    /\ pc = "start"
    /\ todo = <<>>
    /\ analyzer = NewAnalyzer
    /\ comment_counts = Absent
    /\ report = Absent
    /\ error = None

\* Trees of every shape, the parameters fixed.
InitTrees ==
    /\ call = "analyze_python_code"
    /\ has_unparse = TRUE
    /\ \E n \in 0..MaxNodes : \E t \in Trees(n) :
          source_code = [parses |-> TRUE, tree |-> t, lines |-> <<>>]

\* Parameter lists of every shape, the tree fixed.
InitSignatures ==
    /\ call = "analyze_python_code"
    /\ \E a \in Signatures : \E r \in {Absent, Name("int")} :
          /\ has_unparse \in BOOLEAN
          /\ IF has_unparse THEN TRUE ELSE r # Absent
          /\ source_code = [parses |-> TRUE, tree |-> SignatureTree(a, r),
                            lines |-> <<"code_comment", "triple">>]

\* First statements of every shape, in a method and in a function.
InitDocstrings ==
    /\ call = "analyze_python_code"
    /\ has_unparse = TRUE
    /\ \E d1 \in RawDocs, d2 \in RawDocs :
          source_code = [parses |-> TRUE, tree |-> DocstringTree(d1, d2),
                         lines |-> <<"triple", "comment">>]

\* Texts of every shape.  A text tokenize fails on does not parse either.
InitSources ==
    /\ call \in {"analyze_python_code", "count_all_comments"}
    /\ has_unparse = TRUE
    /\ \E ls \in Sources : \E ok \in BOOLEAN :
          /\ ok => ~ TokenizeFails(ls)
          /\ source_code = [parses |-> ok,
                            tree |-> IF ok THEN SmallTree ELSE <<>>,
                            lines |-> ls]

\* def f1(p1=1, /): pass
DefaultedPosOnlyTree ==
    MkTree(<<0>>, <<[kind |-> "FunctionDef", doc |-> None]>>,
           [NoArguments EXCEPT !.posonlyargs = <<Arg("p1", Absent)>>,
                               !.defaults = <<1>>],
           Absent)

EmptySource == [parses |-> TRUE, tree |-> <<>>, lines |-> <<>>]

\* The texts uploaded: one that does not parse, and some that do.
UploadedSources ==
    {[parses |-> FALSE, tree |-> <<>>, lines |-> <<"comment", "open_paren">>],
     [parses |-> TRUE, tree |-> SmallTree, lines |-> <<"comment">>],
     [parses |-> TRUE, tree |-> DocstringTree("desc", None), lines |-> <<"triple">>],
     [parses |-> TRUE, tree |-> DefaultedPosOnlyTree, lines |-> <<"code">>]}

\* The uploads: the file name ends with ".py" or not, and the content is
\* empty, or bytes that are no UTF-8, or a text.
Uploads ==
    {[filename_py |-> f, content |-> c] :
        f \in BOOLEAN, c \in {"empty", "not_utf8", "text"}}

\* A request to POST /analyze.
InitUploads ==
    /\ request \in Uploads
    /\ response = Absent
    /\ pc = "request"
    /\ call = "analyze_python_code"
    /\ has_unparse = TRUE
    /\ IF request.content = "text"
       THEN source_code \in UploadedSources
       ELSE source_code = EmptySource
    /\ todo = <<>>
    /\ analyzer = NewAnalyzer
    /\ comment_counts = Absent
    /\ report = Absent
    /\ error = None

Init ==
    \/ Start /\ (InitTrees \/ InitSignatures \/ InitDocstrings \/ InitSources)
    \/ InitUploads

\* str(e) of the exception that left analyze_python_code.
ErrorText(e) ==
    CASE e = "SyntaxError" -> "'(' was never closed"
      [] e = "IndexError" -> "list index out of range"
      [] OTHER -> e

HTTPException(status_code, detail) == [status_code |-> status_code, detail |-> detail]

\* main.py, lines 64-94 of analyze_code: the upload is refused, or decoded
\* and passed to analyze_python_code.
AnalyzeCodeValidate ==
    /\ pc = "request"
    /\ IF ~ request.filename_py
       THEN /\ response' = HTTPException(400, "Only Python (.py) files are supported")
            /\ pc' = "responded"
       ELSE IF request.content = "empty"
       THEN /\ response' = HTTPException(400, "Uploaded file is empty")
            /\ pc' = "responded"
       ELSE IF request.content = "not_utf8"
       THEN /\ response' = HTTPException(400, "File must be UTF-8 encoded")
            /\ pc' = "responded"
       ELSE /\ pc' = "start"
            /\ UNCHANGED response
    /\ UNCHANGED <<request, call, source_code, has_unparse, todo, analyzer,
                   comment_counts, report, error>>

\* main.py, lines 97-121 of analyze_code, once analyze_python_code has
\* returned or raised: SyntaxError becomes 400, any other exception 500.
AnalyzeCodeRespond ==
    /\ request # Absent
    /\ pc \in {"done", "raised"}
    /\ response' =
          IF pc = "done"
          THEN [status_code |-> 200, analysis |-> report,
                lines_of_code |-> Len(source_code.lines)]
          ELSE IF error = "SyntaxError"
          THEN HTTPException(400, "Invalid Python syntax: " \o ErrorText(error))
          ELSE HTTPException(500, "Analysis failed: " \o ErrorText(error))
    /\ pc' = "responded"
    /\ UNCHANGED <<request, call, source_code, has_unparse, todo, analyzer,
                   comment_counts, report, error>>

\* Line 237: ast.parse returns the tree; lines 239-240: the visitor is
\* created and visit(tree) is called.
ParseOk ==
    /\ pc = "start"
    /\ call = "analyze_python_code"
    /\ source_code.parses
    /\ pc' = "visit"
    /\ todo' = <<0>>
    /\ analyzer' = NewAnalyzer
    /\ UNCHANGED <<request, response, call, source_code, has_unparse, comment_counts, report, error>>

\* Line 237: ast.parse raises SyntaxError, which leaves analyze_python_code.
ParseError ==
    /\ pc = "start"
    /\ call = "analyze_python_code"
    /\ ~ source_code.parses
    /\ pc' = "raised"
    /\ error' = "SyntaxError"
    /\ UNCHANGED <<request, response, call, source_code, has_unparse, todo, analyzer, comment_counts,
                   report>>

\* NodeVisitor.visit on a node without a visit_ method of its own (the
\* Module, an If, an AsyncFunctionDef, ...): generic_visit visits the
\* children in order.
GenericVisit ==
    /\ pc = "visit"
    /\ todo # <<>>
    /\ NodeAt(source_code.tree, Head(todo)).kind \notin {"ClassDef", "FunctionDef"}
    /\ todo' = Children(source_code.tree, Head(todo)) \o Tail(todo)
    /\ UNCHANGED <<request, response, call, source_code, has_unparse, pc, analyzer, comment_counts,
                   report, error>>

VisitClassDef ==
    /\ pc = "visit"
    /\ todo # <<>>
    /\ NodeAt(source_code.tree, Head(todo)).kind = "ClassDef"
    /\ LET tree == source_code.tree
           node == tree[Head(todo)]
           r == CollectMethods([analyzer EXCEPT !.classes = Append(@, node.name)],
                               tree, node.name, Children(tree, Head(todo)),
                               has_unparse)
       IN /\ analyzer' = r.an
          /\ IF r.raised
             THEN pc' = "raised" /\ error' = "IndexError" /\ todo' = todo
             ELSE /\ todo' = Children(tree, Head(todo)) \o Tail(todo)
                  /\ UNCHANGED <<pc, error>>
    /\ UNCHANGED <<request, response, call, source_code, has_unparse, comment_counts, report>>

VisitFunctionDef ==
    /\ pc = "visit"
    /\ todo # <<>>
    /\ NodeAt(source_code.tree, Head(todo)).kind = "FunctionDef"
    /\ LET tree == source_code.tree
           r == RecordFunction(analyzer, tree, Head(todo), has_unparse)
       IN /\ analyzer' = r.an
          /\ IF r.raised
             THEN pc' = "raised" /\ error' = "IndexError" /\ todo' = todo
             ELSE /\ todo' = Children(tree, Head(todo)) \o Tail(todo)
                  /\ UNCHANGED <<pc, error>>
    /\ UNCHANGED <<request, response, call, source_code, has_unparse, comment_counts, report>>

\* Line 243, once visit(tree) has returned.
CountComments ==
    /\ pc = "visit"
    /\ todo = <<>>
    /\ LET r == CountAllComments(source_code.lines)
       IN IF r.raised
          THEN pc' = "raised" /\ error' = r.exc /\ UNCHANGED comment_counts
          ELSE pc' = "counted" /\ comment_counts' = r.counts /\ UNCHANGED error
    /\ UNCHANGED <<request, response, call, source_code, has_unparse, todo, analyzer, report>>

\* Lines 245-281.
ReturnReport ==
    /\ pc = "counted"
    /\ report' = BuildReport(analyzer, comment_counts)
    /\ pc' = "done"
    /\ UNCHANGED <<request, response, call, source_code, has_unparse, todo, analyzer, comment_counts,
                   error>>

\* count_all_comments called on a text of its own.
CallCountAllComments ==
    /\ pc = "start"
    /\ call = "count_all_comments"
    /\ LET r == CountAllComments(source_code.lines)
       IN IF r.raised
          THEN pc' = "raised" /\ error' = r.exc /\ UNCHANGED comment_counts
          ELSE pc' = "done" /\ comment_counts' = r.counts /\ UNCHANGED error
    /\ UNCHANGED <<request, response, call, source_code, has_unparse, todo, analyzer, report>>

Next ==
    \/ ParseOk
    \/ ParseError
    \/ GenericVisit
    \/ VisitClassDef
    \/ VisitFunctionDef
    \/ CountComments
    \/ ReturnReport
    \/ CallCountAllComments
    \/ AnalyzeCodeValidate
    \/ AnalyzeCodeRespond

Spec == Init /\ [][Next]_vars

(* ------------------------------- claims ------------------------------- *)
\* analyze_python_code has returned its report.
Returned == pc = "done" /\ call = "analyze_python_code"

Tree == source_code.tree

FunctionNodes == {i \in 1..Len(Tree) : Tree[i].kind = "FunctionDef"}

\* Node i is a statement of the body of a class.
DirectlyInClass(i) == Tree[i].parent # 0 /\ Tree[Tree[i].parent].kind = "ClassDef"

EnclosingClass(i) == Tree[Tree[i].parent].name

\* Node i lies, at any depth, inside a node of that kind.
InsideA(kind, i) ==
    \E j \in 1..Len(Tree) : Tree[j].kind = kind /\ IsInside(Tree, i, j)

\* A local helper: inside a function, and no method of a class.
NestedFunction(i) == InsideA("FunctionDef", i) /\ ~ DirectlyInClass(i)

NodeNamed(nm) == CHOOSE i \in 1..Len(Tree) : Tree[i].name = nm

Occurrences(seq, x) == Cardinality({k \in DOMAIN seq : seq[k] = x})

Entries(details, nm) == {k \in DOMAIN details : details[k].name = nm}

AllDetails ==
    {report.function_details[k] : k \in DOMAIN report.function_details}
    \cup {report.method_details[k] : k \in DOMAIN report.method_details}

ClassNames == {Tree[j].name : j \in {i \in 1..Len(Tree) : Tree[i].kind = "ClassDef"}}

\* The parameters a definition declares, of every section.
Parameters(a) ==
    {a.posonlyargs[i] : i \in DOMAIN a.posonlyargs}
    \cup {a.args[i] : i \in DOMAIN a.args}
    \cup {a.kwonlyargs[i] : i \in DOMAIN a.kwonlyargs}
    \cup ({a.vararg, a.kwarg} \ {Absent})

\* C1: a function defined directly in the body of class T is reported as the
\* method "T.name" of T, with class_name = T, and never among the functions;
\* and a recorded callable carries a class name iff it was defined directly
\* in that class's body.
C1_MethodsOnlyAsMethods ==
    Returned =>
        \A i \in FunctionNodes :
            /\ DirectlyInClass(i) =>
                  /\ Occurrences(report.methods,
                                 EnclosingClass(i) \o "." \o Tree[i].name) = 1
                  /\ \E k \in Entries(report.method_details, Tree[i].name) :
                        report.method_details[k].class_name = EnclosingClass(i)
                  /\ Occurrences(report.functions, Tree[i].name) = 0
                  /\ Entries(report.function_details, Tree[i].name) = {}
            /\ \A d \in AllDetails :
                  d.name = Tree[i].name =>
                     d.class_name = IF DirectlyInClass(i) THEN EnclosingClass(i)
                                    ELSE None

\* C2: a function defined inside the body of another function has no entry
\* in functions, function_details, methods or method_details, and the
\* with/without-docstring counters count only the other callables.
C2_NestedFunctionsNotReported ==
    Returned =>
        /\ \A i \in FunctionNodes :
              NestedFunction(i) =>
                 /\ Occurrences(report.functions, Tree[i].name) = 0
                 /\ Entries(report.function_details, Tree[i].name) = {}
                 /\ \A c \in ClassNames :
                       Occurrences(report.methods, c \o "." \o Tree[i].name) = 0
                 /\ Entries(report.method_details, Tree[i].name) = {}
        /\ report.counts.functions_with_docstrings
              + report.counts.functions_without_docstrings
           = Cardinality({k \in DOMAIN report.function_details :
                 ~ NestedFunction(NodeNamed(report.function_details[k].name))})
        /\ report.counts.methods_with_docstrings
              + report.counts.methods_without_docstrings
           = Cardinality({k \in DOMAIN report.method_details :
                 ~ NestedFunction(NodeNamed(report.method_details[k].name))})

\* C3: a function definition that lies inside no class and inside no other
\* function is recorded exactly once in functions and in function_details,
\* whatever its body contains.
C3_TopLevelFunctionsRecordedOnce ==
    Returned =>
        \A i \in FunctionNodes :
            (~ InsideA("ClassDef", i) /\ ~ InsideA("FunctionDef", i)) =>
                /\ Occurrences(report.functions, Tree[i].name) = 1
                /\ Cardinality(Entries(report.function_details, Tree[i].name)) = 1

DeclaredCount(a) ==
    Len(a.posonlyargs) + Len(a.args) + Len(a.kwonlyargs)
        + (IF a.vararg # Absent THEN 1 ELSE 0) + (IF a.kwarg # Absent THEN 1 ELSE 0)

\* C4: the args list of a recorded callable has one descriptor for each
\* positional parameter (the positional-only ones included), each
\* keyword-only parameter, the *args and the **kwargs parameter it declares.
C4_OneDescriptorPerParameter ==
    Returned =>
        \A d \in AllDetails :
            Len(d.args) = DeclaredCount(Tree[NodeNamed(d.name)].args)

\* C5: with P positional parameters and K default expressions, the P
\* positional descriptors come first, and exactly the last K of them have
\* default = TRUE.
C5_TrailingDefaults ==
    Returned =>
        \A d \in AllDetails :
            LET a == Tree[NodeNamed(d.name)].args
                positional == a.posonlyargs \o a.args
                P == Len(positional)
                K == Len(a.defaults)
            IN /\ Len(d.args) >= P
               /\ \A j \in 1..P :
                     /\ d.args[j].name = positional[j].arg
                     /\ d.args[j].default = (j > P - K)

\* The text of an annotation, and whether the interpreter can produce it.
Rendering(ann) == IF has_unparse THEN unparse(ann) ELSE AnnotationToString(ann)

Renderable(ann) == has_unparse \/ AnnotationToString(ann) # "Any"

\* C6: the type of every descriptor, of whatever section, is the text of the
\* parameter's annotation, and 'Any' only where the parameter has none or it
\* cannot be rendered.
C6_TypeIsAnnotationText ==
    Returned =>
        \A d \in AllDetails : \A j \in DOMAIN d.args :
            \A p \in Parameters(Tree[NodeNamed(d.name)].args) :
                p.arg = d.args[j].name =>
                    d.args[j].type =
                        IF p.annotation # Absent /\ Renderable(p.annotation)
                        THEN Rendering(p.annotation)
                        ELSE "Any"

StartsWithLiteral(nm) == Tree[NodeNamed(nm)].doc # None

\* C7: has_docstring is TRUE iff the first statement of the callable is a
\* string literal, whatever the literal holds, and the counters count the
\* callables accordingly.
C7_DocstringIffLeadingLiteral ==
    Returned =>
        /\ \A d \in AllDetails : d.has_docstring <=> StartsWithLiteral(d.name)
        /\ report.counts.functions_with_docstrings
           = Cardinality({k \in DOMAIN report.function_details :
                             StartsWithLiteral(report.function_details[k].name)})
        /\ report.counts.methods_with_docstrings
           = Cardinality({k \in DOMAIN report.method_details :
                             StartsWithLiteral(report.method_details[k].name)})

CoverageInRange(c) == 0 <= c.num /\ c.num <= 100 * c.den

\* C8 as stated: docstring_coverage is within [0, 100] and is 0 exactly when
\* no callable was recorded.
C8_ZeroIffNoCallables ==
    Returned =>
        /\ CoverageInRange(report.counts.docstring_coverage)
        /\ report.counts.docstring_coverage.num = 0
           <=> report.counts.total_with_docstrings
                  + report.counts.total_without_docstrings = 0

\* C8 as amended: docstring_coverage is within [0, 100] and is 0 exactly when
\* no recorded callable has a docstring (total_with_docstrings = 0), which
\* covers the report without callables.
C8_ZeroIffNoneDocumented ==
    Returned =>
        /\ CoverageInRange(report.counts.docstring_coverage)
        /\ report.counts.docstring_coverage.num = 0
           <=> report.counts.total_with_docstrings = 0
        /\ report.counts.total_with_docstrings
              + report.counts.total_without_docstrings = 0
           => report.counts.docstring_coverage.num = 0

\* A report of several callables, none of which has a docstring.
C8_Witness ==
    /\ Returned
    /\ report.counts.total_with_docstrings = 0
    /\ report.counts.total_without_docstrings > 1
    /\ report.counts.docstring_coverage.num = 0

\* C9: total_comments = single_line_comments + multi_line_comments in what
\* count_all_comments returns, by the token pass or by the line scan, and in
\* the counts of the report.
C9_TotalIsSingleLinePlusMultiLine ==
    /\ comment_counts # Absent =>
          comment_counts.total_comments
            = comment_counts.single_line_comments + comment_counts.multi_line_comments
    /\ report # Absent =>
          /\ report.counts.total_comments
               = report.counts.single_line_comments + report.counts.multi_line_comments
          /\ report.counts.total_comments = comment_counts.total_comments

\* The line scan has run after the token pass had counted a comment, and
\* both counters are positive.
C9_Witness ==
    /\ call = "count_all_comments"
    /\ pc = "done"
    /\ TokenizeFails(source_code.lines)
    /\ TokenPass(TokInit, source_code.lines).single > 0
    /\ comment_counts.single_line_comments > 0
    /\ comment_counts.multi_line_comments > 0

\* C10: count_all_comments returns its four counters and raises nothing, on
\* every text, and on the empty text every counter is 0.
C10_CountAllCommentsNeverRaises ==
    /\ error \notin {"TokenError", "IndentationError"}
    /\ (call = "count_all_comments" /\ pc # "start") =>
          /\ pc = "done"
          /\ comment_counts \in [single_line_comments : Nat, multi_line_comments : Nat,
                                 docstring_lines : Nat, total_comments : Nat]
          /\ source_code.lines = <<>> =>
                comment_counts = [single_line_comments |-> 0, multi_line_comments |-> 0,
                                  docstring_lines |-> 0, total_comments |-> 0]

\* tokenize raised IndentationError part-way, after a comment had been
\* counted, and count_all_comments returned.
C10_Witness ==
    /\ call = "count_all_comments"
    /\ pc = "done"
    /\ TokenPass(TokInit, source_code.lines).exc = "IndentationError"
    /\ TokenPass(TokInit, source_code.lines).single > 0
    /\ comment_counts.total_comments > 0

\* analyze_python_code has returned or raised (the handler of /analyze may
\* have answered since).
Left ==
    /\ call = "analyze_python_code"
    /\ \/ pc \in {"done", "raised"}
       \/ pc = "responded" /\ error # None
       \/ pc = "responded" /\ response.status_code = 200

\* C11: on a text that does not parse, analyze_python_code raises
\* SyntaxError before any step of the analysis and returns no report; it
\* returns a report if and only if the text parses; and the handler of
\* /analyze answers the syntax error with 400, not 500.
C11_ReportIffParsed ==
    /\ (Left /\ ~ source_code.parses) =>
          /\ error = "SyntaxError"
          /\ analyzer = NewAnalyzer
          /\ comment_counts = Absent
          /\ report = Absent
    /\ Left => (report # Absent <=> source_code.parses)
    /\ (response # Absent /\ error = "SyntaxError") =>
          /\ response.status_code = 400
          /\ response.detail = "Invalid Python syntax: '(' was never closed"


\* The descriptors recorded so far, of functions and of methods.
RecordedDetails ==
    {analyzer.function_details[k] : k \in DOMAIN analyzer.function_details}
    \cup {analyzer.method_details[k] : k \in DOMAIN analyzer.method_details}

IsVariadicPositional(arg) == "vararg" \in DOMAIN arg /\ arg.vararg

IsVariadicKeyword(arg) == "kwargs" \in DOMAIN arg /\ arg.kwargs

\* The line of the "Args:" section the claim gives a descriptor.
SectionLine(arg) ==
    IF IsVariadicPositional(arg)
    THEN "    *" \o arg.name \o " (" \o arg.type \o "): Variable positional arguments"
    ELSE IF IsVariadicKeyword(arg)
    THEN "    **" \o arg.name \o " (" \o arg.type \o "): Variable keyword arguments"
    ELSE "    " \o arg.name \o " (" \o arg.type \o "): Description of " \o arg.name

\* C12: the baseline docstring of a callable has an "Args:" section if and
\* only if its descriptor list is not empty, the section has one line per
\* descriptor in the order of the list ("*name" for the variadic-positional,
\* "**name" for the variadic-keyword, "name" otherwise), and the "Returns:"
\* section always follows, last; of every callable recorded when
\* analyze_python_code returns or raises.
C12_ArgsSectionIffDescriptors ==
    pc \in {"done", "raised"} =>
    \A d \in RecordedDetails :
        LET lines == BaselineLines(d.name, d.args)
            n == Len(lines)
            headers == {k \in 1..n : lines[k] = "Args:"}
        IN /\ d.baseline_docstring = Join("\n", lines)
           /\ lines[1] = d.name
           /\ headers # {} <=> d.args # <<>>
           /\ d.args # <<>> =>
                 /\ headers = {3}
                 /\ n = 3 + Len(d.args) + 3
                 /\ \A i \in 1..Len(d.args) : lines[3 + i] = SectionLine(d.args[i])
           /\ d.args = <<>> => n = 4
           /\ SubSeq(lines, n - 2, n)
                = <<"", "Returns:", "    Any: Description of return value">>
           /\ {k \in 1..n : lines[k] = "Returns:"} = {n - 1}

\* A method is recorded whose descriptor list has a plain, a
\* variadic-positional and a variadic-keyword descriptor, in this order.
C12_Witness ==
    /\ Returned
    /\ \E k \in DOMAIN analyzer.method_details :
        LET args == analyzer.method_details[k].args
        IN /\ Len(args) >= 3
           /\ ~ IsVariadicPositional(args[1]) /\ ~ IsVariadicKeyword(args[1])
           /\ IsVariadicPositional(args[Len(args) - 1])
           /\ IsVariadicKeyword(args[Len(args)])
           /\ analyzer.method_details[k].baseline_docstring
                = Join("\n", <<analyzer.method_details[k].name, "", "Args:">>
                             \o [i \in 1..Len(args) |-> SectionLine(args[i])]
                             \o <<"", "Returns:", "    Any: Description of return value">>)


\* The number of the lines of one of the kinds.
LinesOfKind(lines, kinds) == Cardinality({i \in DOMAIN lines : lines[i] \in kinds})

\* C13: when tokenize fails in count_all_comments, the counters returned
\* are those of the line scan alone: a "#" line counts once in
\* single_line_comments and a line that starts a triple-quoted literal once
\* in multi_line_comments, and the token pass that failed adds nothing.
C13_FallbackCountsOnce ==
    (comment_counts # Absent /\ TokenizeFails(source_code.lines)) =>
        /\ comment_counts.single_line_comments
             = LinesOfKind(source_code.lines, {"comment"})
        /\ comment_counts.multi_line_comments
             = LinesOfKind(source_code.lines, {"triple", "triple_num", "quote3"})


\* C14: in the descriptor list of every recorded callable the descriptors of
\* *args and of **kwargs have default = FALSE, after the sweep of the
\* trailing defaults too and whatever the shape of the parameter list.
C14_VariadicNeverDefaulted ==
    \A d \in RecordedDetails :
        \A i \in DOMAIN d.args :
            (IsVariadicPositional(d.args[i]) \/ IsVariadicKeyword(d.args[i])) =>
                d.args[i].default = FALSE


\* The method, a node of the tree, that an entry "Class.method" names.
MethodNamed(qualified) ==
    CHOOSE i \in 1..Len(Tree) :
        /\ Tree[i].kind = "FunctionDef"
        /\ DirectlyInClass(i)
        /\ EnclosingClass(i) \o "." \o Tree[i].name = qualified

\* The entries of the list follow one another as their definitions do in
\* the source text (the nodes are numbered in source order).
InSourceOrder(nodes) ==
    \A a, b \in DOMAIN nodes : nodes[a] < nodes[b] => a < b

\* C15: the lists classes, functions / function_details and methods /
\* method_details of the report hold their definitions in source order.
C15_ListsInSourceOrder ==
    Returned =>
        /\ InSourceOrder([k \in DOMAIN report.classes |-> NodeNamed(report.classes[k])])
        /\ InSourceOrder([k \in DOMAIN report.functions |-> NodeNamed(report.functions[k])])
        /\ InSourceOrder([k \in DOMAIN report.function_details |->
                             NodeNamed(report.function_details[k].name)])
        /\ InSourceOrder([k \in DOMAIN report.methods |-> MethodNamed(report.methods[k])])
        /\ InSourceOrder([k \in DOMAIN report.method_details |->
                             NodeNamed(report.method_details[k].name)])


\* C16: the counters of a report agree with one another and with its
\* lists: the functions with and without a docstring add up to
\* total_functions, the length of function_details; the methods likewise to
\* total_methods, the length of method_details; and total_with_docstrings
\* + total_without_docstrings = total_functions + total_methods, the
\* denominator of docstring_coverage.
C16_CountersConsistent ==
    report # Absent =>
        LET c == report.counts
        IN /\ c.functions_with_docstrings + c.functions_without_docstrings
                = c.total_functions
           /\ c.total_functions = Len(report.function_details)
           /\ c.total_functions = Len(report.functions)
           /\ c.methods_with_docstrings + c.methods_without_docstrings = c.total_methods
           /\ c.total_methods = Len(report.method_details)
           /\ c.total_methods = Len(report.methods)
           /\ c.total_with_docstrings + c.total_without_docstrings
                = c.total_functions + c.total_methods
           /\ c.total_with_docstrings
                = c.functions_with_docstrings + c.methods_with_docstrings
           /\ c.total_without_docstrings
                = c.functions_without_docstrings + c.methods_without_docstrings
           /\ c.total_functions + c.total_methods > 0 =>
                 c.docstring_coverage.den = c.total_functions + c.total_methods

\* A report with functions and methods, with and without a docstring.
C16_Witness ==
    /\ Returned
    /\ report.counts.functions_with_docstrings > 0
    /\ report.counts.functions_without_docstrings > 0
    /\ report.counts.methods_with_docstrings > 0
    /\ report.counts.methods_without_docstrings > 0
    /\ report.counts.total_functions # report.counts.total_methods


=============================================================================
